---- MODULE Spec2Model ----
(***************************************************************************)
(* Model of the Conversational AI Builder backend (src/server/index.js).   *)
(*                                                                         *)
(* The Express process is a single-threaded event loop: a handler runs     *)
(* without interruption up to its next `await`, so every action below is   *)
(* one such run-to-completion segment of a handler.  The Vapi provider,    *)
(* the Google TTS endpoint and the file system are the environment; their  *)
(* answers are inputs drawn with \E.                                       *)
(*                                                                         *)
(* Strings are sequences of one-character strings, so that trim and the    *)
(* emptiness tests are computed.  The fixed texts of the program are       *)
(* one-element sequences holding the whole text.                           *)
(***************************************************************************)
EXTENDS Integers, Sequences, FiniteSets, TLC

(* ---------------- bounds of the model ---------------- *)
\* chat requests received in one process lifetime
MaxReq == 2
\* last value of the millisecond clock Date.now()
MaxClock == 1
\* longest response text handed to generateAudio on its own
MaxTextLen == 202

(* ---------------- values ---------------- *)
\* JavaScript null / undefined for ids and names
Null == <<>>

Requests == 1..MaxReq

\* JavaScript values a client can put in req.body.message
JsUndefined == [t |-> "undefined", v |-> <<>>]
JsString(s) == [t |-> "string", v |-> s]
JsNumber(s) == [t |-> "number", v |-> s]

\* the bodies sent by the modelled clients: {} , {message: ""},
\* {message: " "}, {message: " a"}, {message: 5}
Messages ==
  { JsUndefined, JsString(<<>>), JsString(<<" ">>), JsString(<<" ", "a">>),
    JsNumber(<<"5">>) }

\* HTTP statuses of a failed provider call; 0 is a failure without a
\* response (network error)
FailStatuses == {400, 401, 429, 500, 0}

\* bodies of a successful provider chat call, {id, output, cost}: the reply
\* of the documented shape, a reply with an empty content, a reply with an
\* empty output array, and a reply with neither output nor cost
VapiData ==
  { [ id |-> <<"c1">>, hasOutput |-> TRUE,
      output |-> <<[content |-> <<"H", "i">>]>>, hasCost |-> TRUE, cost |-> 2 ],
    [ id |-> <<"c2">>, hasOutput |-> TRUE,
      output |-> <<[content |-> <<>>]>>, hasCost |-> FALSE, cost |-> 0 ],
    [ id |-> <<"c3">>, hasOutput |-> TRUE,
      output |-> <<>>, hasCost |-> TRUE, cost |-> 2 ],
    [ id |-> <<"c4">>, hasOutput |-> FALSE,
      output |-> <<>>, hasCost |-> FALSE, cost |-> 0 ] }

\* texts posted to the placeholder endpoint
PlaceholderTexts == { <<>>, <<"x">>, <<"y">> }

\* the bodies of POST /api/chat: the message of the frontend, with or without
\* a systemMessage, and the body of the API test script, which carries the
\* text as `prompt`
SystemMessages == { JsUndefined, JsString(<<"s">>) }
Prompts == { JsUndefined, JsString(<<"p">>) }
Bodies ==
  { [message |-> m, systemMessage |-> sm, prompt |-> pr] :
      m \in Messages, sm \in SystemMessages, pr \in Prompts }

(* ---------------- state ---------------- *)
VARIABLES
  started,       \* the app.listen callback has run
  ASSISTANT_ID,  \* the cached assistant id, Null before the first creation
  audioFiles,    \* the in-memory placeholder map: file name -> text
  disk,          \* names of the files in public/audio
  dirExists,     \* public/audio exists
  now,           \* Date.now()
  vapiAssistants,\* number of assistants existing at the provider
  req,           \* the chat requests: position and local variables of each
  chatRes,       \* the chat request answered in the last step, if any
  getRes,        \* the answer of the GET handled in the last step, if any
  apiRes,        \* the answer of the audio or cleanup request handled in the
                 \* last step, if any
  handedOut,     \* the file names the answers have given to clients so far
  ttsText,       \* generateAudio on its own: the text it is called with
  ttsQuery,      \* generateAudio on its own: the q parameter of its request
  wire,          \* end to end: the request slot of the backend that holds the
                 \* chat call the frontend waits for, 0 when none does
  prompt,        \* frontend: the prompt field
  systemMessage, \* frontend: the system message field
  response,      \* frontend: the response shown, NullResponse when none
  loading,       \* frontend: a chat call is under way
  error,         \* frontend: the error shown, Null when none
  audioPlaying,  \* frontend: the play button shows "pause"
  serverStatus,  \* frontend: "checking", "connected" or "disconnected"
  pendingCall,   \* frontend: the chat call in flight, if any
  healthPending, \* frontend: a health probe is in flight
  playPending,   \* frontend: the promise of audio.play() is pending
  toast,         \* frontend: the toast raised in the last step, if any
  result         \* frontend: the outcome of the chat call or health check,
                 \* or the media event, handled in the last step, if any

\* the state of the backend process
backend ==
  << started, ASSISTANT_ID, audioFiles, disk, dirExists, now, vapiAssistants,
     req, chatRes, getRes, apiRes, handedOut >>

\* the state of the frontend component
front ==
  << prompt, systemMessage, response, loading, error, audioPlaying,
     serverStatus, pendingCall, healthPending, playPending, toast, result >>

\* the variables of generateAudio run on its own, of the connection and of
\* the frontend, which the handlers of the backend leave alone
aside == << ttsText, ttsQuery, wire, front >>

vars == << backend, aside >>

\* no TTS request was built
NoTts == [sent |-> FALSE, q |-> <<>>]

\* a response not yet sent
NoRes ==
  [ status |-> 0, error |-> <<>>, response |-> <<>>, audioFileName |-> Null,
    chatId |-> Null, cost |-> 0 ]

NoVapi ==
  [ id |-> Null, hasOutput |-> FALSE, output |-> <<>>, hasCost |-> FALSE,
    cost |-> 0 ]

\* a request slot before the request arrives
IdleReq ==
  [ pc |-> "idle",
    message |-> JsUndefined,
    goca |-> "none",         \* how getOrCreateAssistant went for this request
    sent |-> [assistantId |-> Null, input |-> <<>>],  \* body of the chat call
    failed |-> "none",       \* the call that threw, if any
    failStatus |-> 0,        \* error.response?.status of that failure
    vapi |-> NoVapi,         \* response.data of the chat call
    audioName |-> Null,      \* const audioFileName of generateAudio
    tts |-> NoTts,           \* the q parameter of the TTS request
    tier |-> "none",         \* the tier of generateAudio that returned
    failedTiers |-> {},      \* the tiers of generateAudio that threw
    res |-> NoRes ]

NoGet == [ep |-> "none", assistantId |-> Null]

\* no audio or cleanup request was answered in the last step
NoApi ==
  [ ep |-> "none", status |-> 0, name |-> Null, kind |-> "none",
    text |-> <<>>, error |-> <<>> ]

\* no chat request was answered in the last step
NoChatRes == [r |-> 0, q |-> IdleReq]

\* a request after its response: the handler's locals are gone; what stays is
\* how its getOrCreateAssistant call ended and whether the provider answered
Retire(slot) ==
  [IdleReq EXCEPT !.pc = "done", !.goca = slot.goca, !.failed = slot.failed,
                  !.res = [NoRes EXCEPT !.status = slot.res.status]]

\* the handler segment of request r ends in `slot`
Commit(r, slot) ==
  /\ req' = [req EXCEPT ![r] = IF slot.pc = "done" THEN Retire(slot) ELSE slot]
  /\ chatRes' = IF slot.pc = "done" THEN [r |-> r, q |-> slot] ELSE NoChatRes
  /\ handedOut' =
       IF slot.pc = "done" /\ slot.res.audioFileName # Null
         THEN [handedOut EXCEPT !.chat = @ \cup {slot.res.audioFileName}]
         ELSE handedOut

(* ---------------- pure functions of the program ---------------- *)
\* JavaScript truthiness of req.body.message, as tested by `!message`
Truthy(m) ==
  CASE m.t = "undefined" -> FALSE
    [] m.t = "string" -> Len(m.v) > 0
    [] OTHER -> TRUE

RECURSIVE TrimStart(_)
TrimStart(s) ==
  IF Len(s) > 0 /\ Head(s) = " " THEN TrimStart(Tail(s)) ELSE s

RECURSIVE TrimEnd(_)
TrimEnd(s) ==
  IF Len(s) > 0 /\ s[Len(s)] = " " THEN TrimEnd(SubSeq(s, 1, Len(s) - 1)) ELSE s

\* String.prototype.trim
Trim(s) == TrimEnd(TrimStart(s))

NoContentText == <<"Sorry, I couldn't generate a response.">>
RephraseText ==
  <<"I had trouble understanding your request. Could you please rephrase it?">>
AuthText ==
  <<"There seems to be an authentication issue with the AI service. Please try again.">>
RateLimitText ==
  <<"I'm receiving a lot of requests right now. Please wait a moment and try again.">>
TechnicalText ==
  <<"I'm experiencing some technical difficulties. Please try again in a moment.">>
MessageRequired == <<"Message is required">>
TextRequired == <<"Text is required">>

\* the first content without the `|| 'Sorry, ...'` default
AssistantMessageNoDefault(d) ==
  IF d.hasOutput /\ Len(d.output) > 0 THEN d.output[1].content ELSE <<>>

\* vapiResponse.output?.[0]?.content || 'Sorry, ...'
AssistantMessage(d) ==
  IF d.hasOutput /\ Len(d.output) > 0 /\ Len(d.output[1].content) > 0
    THEN d.output[1].content
    ELSE NoContentText

\* vapiResponse.cost || 0
CostOf(d) == IF d.hasCost /\ d.cost # 0 THEN d.cost ELSE 0

\* the catch block with one text for every failure
ErrorTextGeneric(status) == TechnicalText

\* the catch block of POST /api/chat: the text for error.response?.status
ErrorText(status) ==
  CASE status = 400 -> RephraseText
    [] status = 401 -> AuthText
    [] status = 429 -> RateLimitText
    [] OTHER -> TechnicalText

\* res.status(400).json({error: 'Message is required'})
BadRequest ==
  [NoRes EXCEPT !.status = 400, !.error = MessageRequired]

\* the catch block passing the provider's status on
ErrorResponseSurfaced(status) ==
  [NoRes EXCEPT !.status = IF status = 0 THEN 500 ELSE status,
                !.response = ErrorText(status)]

\* res.status(200).json({response: <fixed text>, audioFileName: null})
ErrorResponse(status) ==
  [NoRes EXCEPT !.status = 200, !.response = ErrorText(status)]

\* the handler without the try/catch around generateAudio: a failed synthesis
\* lands in the handler's catch block
ChatResponseNeedsAudio(d, name) ==
  IF name = Null
    THEN ErrorResponse(0)
    ELSE [ status |-> 200, error |-> <<>>, response |-> AssistantMessage(d),
           audioFileName |-> name, chatId |-> d.id, cost |-> CostOf(d) ]

\* res.json({response, audioFileName, chatId, cost})
ChatResponse(d, name) ==
  [ status |-> 200, error |-> <<>>, response |-> AssistantMessage(d),
    audioFileName |-> name, chatId |-> d.id, cost |-> CostOf(d) ]

(* ---------------- generateAudio ---------------- *)
FileName(prefix, t) == <<prefix, t>>

\* outcomes of the four fs.writeFileSync calls of one generateAudio call;
\* without the directory every write throws
WriteOutcomes(dir) ==
  IF dir
    THEN [primary : BOOLEAN, demo : BOOLEAN, text : BOOLEAN, fallback : BOOLEAN]
    ELSE {[primary |-> FALSE, demo |-> FALSE, text |-> FALSE, fallback |-> FALSE]}

\* FINAL FALLBACK: write fallback_<now>.mp3 or throw 'Failed to generate audio'
FinalFallback(t, files, failedBefore, w) ==
  IF w.fallback
    THEN [ name |-> FileName("fallback_", t),
           disk |-> files \cup {FileName("fallback_", t)},
           tier |-> "tertiary", failedTiers |-> failedBefore ]
    ELSE [ name |-> Null, disk |-> files, tier |-> "raised",
           failedTiers |-> failedBefore \cup {"tertiary"} ]

\* the fallback method swallowing the errors of its writes
DemoFallbackUnchecked(name, t, files, w) ==
  [ name |-> name,
    disk |-> files \cup (IF w.demo THEN {name} ELSE {})
                  \cup (IF w.text THEN {FileName("response_text_", t)} ELSE {}),
    tier |-> "secondary", failedTiers |-> {"primary"} ]

\* FALLBACK METHOD: write the demo mp3 under the same name, then the text file
DemoFallback(name, t, files, w) ==
  IF w.demo
    THEN IF w.text
           THEN [ name |-> name,
                  disk |-> files \cup {name, FileName("response_text_", t)},
                  tier |-> "secondary", failedTiers |-> {"primary"} ]
           ELSE FinalFallback(t, files \cup {name}, {"primary", "secondary"}, w)
    ELSE FinalFallback(t, files, {"primary", "secondary"}, w)

\* the primary method going straight to the final fallback when it fails
PrimaryTtsSkipsDemo(name, ttsOk, t, files, w) ==
  IF ttsOk /\ w.primary
    THEN [ name |-> name, disk |-> files \cup {name}, tier |-> "primary",
           failedTiers |-> {} ]
    ELSE FinalFallback(t, files, {"primary"}, w)

\* PRIMARY METHOD after the TTS request has answered (ttsOk) or failed
PrimaryTts(name, ttsOk, t, files, w) ==
  IF ttsOk /\ w.primary
    THEN [ name |-> name, disk |-> files \cup {name}, tier |-> "primary",
           failedTiers |-> {} ]
    ELSE DemoFallback(name, t, files, w)

\* every way the part of generateAudio after the TTS request can end
AudioResults(name, t, files, dir) ==
  { PrimaryTts(name, ttsOk, t, files, w) :
      ttsOk \in BOOLEAN, w \in WriteOutcomes(dir) }

(* ---------------- the frontend component ---------------- *)
\* useState(null) of response
NullResponse == [isNull |-> TRUE]

NoCall == [active |-> FALSE, message |-> <<>>, systemMessage |-> JsUndefined]

\* an error thrown by axios: the error body and status of the HTTP answer, if
\* there was one, and error.code
NoErr == [body |-> <<>>, status |-> 0, code |-> "none"]

NoResult == [kind |-> "none", data |-> NoRes, err |-> NoErr]

API_BASE_URL == "http://localhost:5000/api"

\* the app after mounting: the useState initial values, and the effect has
\* started the first health check
FrontStart ==
  /\ prompt = <<>>
  /\ systemMessage = <<>>
  /\ response = NullResponse
  /\ loading = FALSE
  /\ error = Null
  /\ audioPlaying = FALSE
  /\ serverStatus = "checking"
  /\ pendingCall = NoCall
  /\ healthPending = TRUE
  /\ playPending = FALSE
  /\ toast = Null
  /\ result = NoResult

\* what the user types into the prompt and the system message fields
PromptTexts == { <<>>, <<" ">>, <<" ", "a">> }
SystemTexts == { <<>>, <<"s">> }

\* the toasts and error texts of the component
PleaseEnterPrompt == <<"Please enter a prompt!">>
ServerNotConnected == <<"Server is not connected. Please check your backend.">>
GeneratingToast == <<"Generating AI response with Vapi...">>
GeneratedToast == <<"AI response generated successfully!">>
FailedToGenerate == <<"Failed to generate response. Please try again.">>
RateLimitExceeded == <<"API rate limit exceeded. Please wait a moment and try again.">>
AuthenticationFailed == <<"Vapi API authentication failed. Please check your API key configuration.">>
RequestTimedOut == <<"Request timed out. The AI is taking longer than usual to respond.">>
CannotConnect == <<"Cannot connect to server. Please make sure the backend is running on port 5000.">>
ServerNotRunning ==
  <<"Backend server is not running. Please start the server with \"node index.js\" in the server directory.">>
UnableToConnect ==
  <<"Unable to connect to AI server. Please check if the server is running on port 5000.">>
NoAudioToast == <<"No audio available to play">>
AudioPausedToast == <<"Audio paused">>
PlayingToast == <<"Playing audio response">>
FailedToPlay == <<"Failed to play audio. Please try again.">>
AudioLoadError == <<"Error loading audio file">>

\* the answers of the backend to a chat call that reach the `try` branch:
\* those of the chat handler, and a 200 without a text
ChatAnswers ==
  { ChatResponse(d, n) : d \in VapiData, n \in {Null, FileName("response_", 0)} }
    \cup { ErrorResponse(st) : st \in FailStatuses }
    \cup { [NoRes EXCEPT !.status = 200] }

\* the ways the chat call throws: an HTTP error with or without an error
\* body, the 30 s timeout, and failures to connect
ChatErrors ==
  { [body |-> MessageRequired, status |-> 400, code |-> "ERR_BAD_REQUEST"],
    [body |-> <<>>, status |-> 429, code |-> "ERR_BAD_REQUEST"],
    [body |-> <<>>, status |-> 401, code |-> "ERR_BAD_REQUEST"],
    [body |-> <<>>, status |-> 500, code |-> "ERR_BAD_RESPONSE"],
    [body |-> <<>>, status |-> 0, code |-> "ECONNABORTED"],
    [body |-> <<>>, status |-> 0, code |-> "ECONNREFUSED"],
    [body |-> <<>>, status |-> 0, code |-> "NETWORK_ERROR"],
    [body |-> <<>>, status |-> 0, code |-> "ERR_NETWORK"] }

\* the audio URL of a response
AudioUrl(name) ==
  IF name = Null THEN Null ELSE <<API_BASE_URL, "/audio/">> \o name

\* formattedResponse of handleSubmit (its timestamp, the wall clock, is left
\* out)
FormattedResponse(data, p) ==
  [ textResponse |-> data.response,
    audioUrl |-> AudioUrl(data.audioFileName),
    promptLength |-> Len(Trim(p)),
    responseLength |-> Len(data.response),
    aiProvider |-> "Vapi AI",
    success |-> TRUE ]

\* errorMessage of the catch block of handleSubmit
ErrorMessage(e) ==
  IF e.body # <<>> THEN e.body
  ELSE IF e.status = 429 THEN RateLimitExceeded
  ELSE IF e.status = 401 THEN AuthenticationFailed
  ELSE IF e.code = "ECONNABORTED" THEN RequestTimedOut
  ELSE IF e.code \in {"NETWORK_ERROR", "ECONNREFUSED"} THEN CannotConnect
  ELSE FailedToGenerate

\* the catch block reaches setServerStatus('disconnected')
MarksDisconnected(e) ==
  /\ e.body = <<>>
  /\ e.status \notin {429, 401}
  /\ e.code \in {"NETWORK_ERROR", "ECONNREFUSED"}

\* the <audio> element is rendered, so audioRef.current is set
HasAudio == response # NullResponse /\ response.audioUrl # Null

\* onChange of the prompt field, disabled while loading
SetPrompt(p) ==
  /\ ~loading
  /\ prompt' = p
  /\ toast' = Null
  /\ result' = NoResult
  /\ UNCHANGED <<systemMessage, response, loading, error, audioPlaying, serverStatus, pendingCall, healthPending, playPending>>
  /\ UNCHANGED <<backend, ttsText, ttsQuery, wire>>

\* onChange of the system message field, disabled while loading
SetSystemMessage(sm) ==
  /\ ~loading
  /\ systemMessage' = sm
  /\ toast' = Null
  /\ result' = NoResult
  /\ UNCHANGED <<prompt, response, loading, error, audioPlaying, serverStatus, pendingCall, healthPending, playPending>>
  /\ UNCHANGED <<backend, ttsText, ttsQuery, wire>>

\* setInterval(checkServerHealth, 30000): the next check starts; the one
\* before has ended, its timeout being 5 s
HealthTimer ==
  /\ ~healthPending
  /\ healthPending' = TRUE
  /\ toast' = Null
  /\ result' = NoResult
  /\ UNCHANGED <<prompt, systemMessage, response, loading, error, audioPlaying, serverStatus, pendingCall, playPending>>
  /\ UNCHANGED <<backend, ttsText, ttsQuery, wire>>

\* a health check that leaves 'disconnected' alone
HealthAnswerOnlyFirst(hasStatus) ==
  /\ healthPending
  /\ healthPending' = FALSE
  /\ serverStatus' = IF hasStatus /\ serverStatus = "checking"
                       THEN "connected" ELSE serverStatus
  /\ toast' = Null
  /\ result' = [NoResult EXCEPT !.kind = IF hasStatus THEN "healthOk"
                                                      ELSE "healthNoStatus"]
  /\ UNCHANGED <<prompt, systemMessage, response, loading, error, audioPlaying, pendingCall, playPending>>
  /\ UNCHANGED <<backend, ttsText, ttsQuery, wire>>

\* checkServerHealth, the health endpoint answers; hasStatus is the
\* truthiness of response.data.status
HealthAnswer(hasStatus) ==
  /\ healthPending
  /\ healthPending' = FALSE
  /\ serverStatus' = IF hasStatus THEN "connected" ELSE serverStatus
  /\ toast' = Null
  /\ result' = [NoResult EXCEPT !.kind = IF hasStatus THEN "healthOk"
                                                      ELSE "healthNoStatus"]
  /\ UNCHANGED <<prompt, systemMessage, response, loading, error, audioPlaying, pendingCall, playPending>>
  /\ UNCHANGED <<backend, ttsText, ttsQuery, wire>>

\* checkServerHealth, the call throws (no answer within 5 s included)
HealthFail(code) ==
  /\ healthPending
  /\ healthPending' = FALSE
  /\ serverStatus' = "disconnected"
  /\ toast' = IF code = "ECONNREFUSED" THEN ServerNotRunning ELSE UnableToConnect
  /\ result' = [NoResult EXCEPT !.kind = "healthFailed", !.err.code = code]
  /\ UNCHANGED <<prompt, systemMessage, response, loading, error, audioPlaying, pendingCall, playPending>>
  /\ UNCHANGED <<backend, ttsText, ttsQuery, wire>>

\* handleSubmit without its test of serverStatus
HandleSubmitAnyStatus ==
  /\ ~loading
  /\ result' = NoResult
  /\ IF Trim(prompt) = <<>>
       THEN /\ toast' = PleaseEnterPrompt
            /\ UNCHANGED <<loading, error, response, pendingCall, playPending>>
       ELSE /\ loading' = TRUE
            /\ error' = Null
            /\ response' = NullResponse
            /\ pendingCall' = [ active |-> TRUE,
                         message |-> Trim(prompt),
                         systemMessage |->
                           IF Trim(systemMessage) = <<>> THEN JsUndefined
                           ELSE JsString(Trim(systemMessage)) ]
            /\ playPending' = FALSE
            /\ toast' = GeneratingToast
  /\ UNCHANGED <<prompt, systemMessage, audioPlaying, serverStatus, healthPending>>
  /\ UNCHANGED <<backend, ttsText, ttsQuery, wire>>

\* handleSubmit up to its await.  The controls of the form are disabled while
\* loading, so the handler is not entered during a call; otherwise its own
\* tests decide.  Setting response to null unmounts the <audio> element, which
\* rejects a pending play() promise.
\* a submission that leaves the previous error in place
HandleSubmitKeepsError ==
  /\ ~loading
  /\ result' = NoResult
  /\ IF Trim(prompt) = <<>>
       THEN /\ toast' = PleaseEnterPrompt
            /\ UNCHANGED <<loading, error, response, pendingCall, playPending>>
       ELSE IF serverStatus # "connected"
         THEN /\ toast' = ServerNotConnected
              /\ UNCHANGED <<loading, error, response, pendingCall, playPending>>
         ELSE /\ loading' = TRUE
              /\ error' = error
              /\ response' = NullResponse
              /\ pendingCall' = [ active |-> TRUE,
                           message |-> Trim(prompt),
                           systemMessage |->
                             IF Trim(systemMessage) = <<>> THEN JsUndefined
                             ELSE JsString(Trim(systemMessage)) ]
              /\ playPending' = FALSE
              /\ toast' = GeneratingToast
  /\ UNCHANGED <<prompt, systemMessage, audioPlaying, serverStatus, healthPending>>
  /\ UNCHANGED <<backend, ttsText, ttsQuery, wire>>

HandleSubmit ==
  /\ ~loading
  /\ result' = NoResult
  /\ IF Trim(prompt) = <<>>
       THEN /\ toast' = PleaseEnterPrompt
            /\ UNCHANGED <<loading, error, response, pendingCall, playPending>>
       ELSE IF serverStatus # "connected"
         THEN /\ toast' = ServerNotConnected
              /\ UNCHANGED <<loading, error, response, pendingCall, playPending>>
         ELSE /\ loading' = TRUE
              /\ error' = Null
              /\ response' = NullResponse
              /\ pendingCall' = [ active |-> TRUE,
                           message |-> Trim(prompt),
                           systemMessage |->
                             IF Trim(systemMessage) = <<>> THEN JsUndefined
                             ELSE JsString(Trim(systemMessage)) ]
              /\ playPending' = FALSE
              /\ toast' = GeneratingToast
  /\ UNCHANGED <<prompt, systemMessage, audioPlaying, serverStatus, healthPending>>
  /\ UNCHANGED <<backend, ttsText, ttsQuery, wire>>

\* a completion that leaves the prompt in the field
ChatAnsweredKeepsPrompt(data) ==
  /\ pendingCall.active
  /\ IF Len(data.response) > 0
       THEN /\ response' = FormattedResponse(data, prompt)
            /\ prompt' = prompt
            /\ error' = error
            /\ toast' = GeneratedToast
       ELSE /\ error' = FailedToGenerate
            /\ toast' = FailedToGenerate
            /\ UNCHANGED <<response, prompt>>
  /\ loading' = FALSE
  /\ pendingCall' = NoCall
  /\ result' = [kind |-> "data", data |-> data, err |-> NoErr]
  /\ UNCHANGED <<systemMessage, audioPlaying, serverStatus, healthPending, playPending>>

\* handleSubmit after its await, the call has answered 2xx with body data;
\* an answer without text is thrown as 'Invalid response from server', an
\* Error with neither response nor code
ChatAnsweredStep(data) ==
  /\ pendingCall.active
  /\ IF Len(data.response) > 0
       THEN /\ response' = FormattedResponse(data, prompt)
            /\ prompt' = <<>>
            /\ error' = error
            /\ toast' = GeneratedToast
       ELSE /\ error' = FailedToGenerate
            /\ toast' = FailedToGenerate
            /\ UNCHANGED <<response, prompt>>
  /\ loading' = FALSE
  /\ pendingCall' = NoCall
  /\ result' = [kind |-> "data", data |-> data, err |-> NoErr]
  /\ UNCHANGED <<systemMessage, audioPlaying, serverStatus, healthPending, playPending>>

\* the same with no call of the backend modelled: the answer is an input
ChatAnswered(data) ==
  /\ ChatAnsweredStep(data)
  /\ UNCHANGED <<backend, ttsText, ttsQuery, wire>>

\* handleSubmit after its await, the call has thrown e (no answer within
\* 30 s included)
ChatFailedStep(e) ==
  /\ pendingCall.active
  /\ error' = ErrorMessage(e)
  /\ toast' = ErrorMessage(e)
  /\ serverStatus' = IF MarksDisconnected(e) THEN "disconnected" ELSE serverStatus
  /\ loading' = FALSE
  /\ pendingCall' = NoCall
  /\ result' = [kind |-> "error", data |-> NoRes, err |-> e]
  /\ UNCHANGED <<prompt, systemMessage, response, audioPlaying, healthPending, playPending>>

\* the same with no call of the backend modelled: the answer is an input
ChatFailed(e) ==
  /\ ChatFailedStep(e)
  /\ UNCHANGED <<backend, ttsText, ttsQuery, wire>>

\* handleAudioPlay: pause when playing, else audio.play(), whose promise is
\* settled later
\* a play button whose pause branch forgets the flag
HandleAudioPlayKeepsFlag ==
  /\ IF ~HasAudio
       THEN /\ toast' = NoAudioToast
            /\ UNCHANGED <<audioPlaying, playPending>>
       ELSE IF audioPlaying
         THEN /\ playPending' = FALSE
              /\ toast' = AudioPausedToast
              /\ UNCHANGED audioPlaying
         ELSE /\ playPending' = TRUE
              /\ toast' = Null
              /\ UNCHANGED audioPlaying
  /\ result' = NoResult
  /\ UNCHANGED <<prompt, systemMessage, response, loading, error, serverStatus, pendingCall, healthPending>>
  /\ UNCHANGED <<backend, ttsText, ttsQuery, wire>>

HandleAudioPlay ==
  /\ IF ~HasAudio
       THEN /\ toast' = NoAudioToast
            /\ UNCHANGED <<audioPlaying, playPending>>
       ELSE IF audioPlaying
         THEN /\ audioPlaying' = FALSE
              /\ playPending' = FALSE
              /\ toast' = AudioPausedToast
         ELSE /\ playPending' = TRUE
              /\ toast' = Null
              /\ UNCHANGED audioPlaying
  /\ result' = NoResult
  /\ UNCHANGED <<prompt, systemMessage, response, loading, error, serverStatus, pendingCall, healthPending>>
  /\ UNCHANGED <<backend, ttsText, ttsQuery, wire>>

\* the promise of audio.play() is fulfilled
PlayStarted ==
  /\ playPending
  /\ playPending' = FALSE
  /\ audioPlaying' = TRUE
  /\ toast' = PlayingToast
  /\ result' = NoResult
  /\ UNCHANGED <<prompt, systemMessage, response, loading, error, serverStatus, pendingCall, healthPending>>
  /\ UNCHANGED <<backend, ttsText, ttsQuery, wire>>

\* the promise of audio.play() is rejected
PlayRejected ==
  /\ playPending
  /\ playPending' = FALSE
  /\ toast' = FailedToPlay
  /\ result' = NoResult
  /\ UNCHANGED <<prompt, systemMessage, response, loading, error, audioPlaying, serverStatus, pendingCall, healthPending>>
  /\ UNCHANGED <<backend, ttsText, ttsQuery, wire>>

\* handleAudioEnded: the `ended` event of the element
HandleAudioEnded ==
  /\ HasAudio
  /\ audioPlaying' = FALSE
  /\ toast' = Null
  /\ result' = [NoResult EXCEPT !.kind = "ended"]
  /\ UNCHANGED <<prompt, systemMessage, response, loading, error, serverStatus, pendingCall, healthPending, playPending>>
  /\ UNCHANGED <<backend, ttsText, ttsQuery, wire>>

\* handleAudioError: the `error` event of the element
HandleAudioError ==
  /\ HasAudio
  /\ audioPlaying' = FALSE
  /\ toast' = AudioLoadError
  /\ result' = NoResult
  /\ UNCHANGED <<prompt, systemMessage, response, loading, error, serverStatus, pendingCall, healthPending, playPending>>
  /\ UNCHANGED <<backend, ttsText, ttsQuery, wire>>

\* clearResponse, the button of the response card; pausing the element
\* rejects a pending play() promise
ClearResponse ==
  /\ response # NullResponse
  /\ response' = NullResponse
  /\ error' = Null
  /\ IF HasAudio
       THEN audioPlaying' = FALSE /\ playPending' = FALSE
       ELSE UNCHANGED <<audioPlaying, playPending>>
  /\ toast' = Null
  /\ result' = NoResult
  /\ UNCHANGED <<prompt, systemMessage, loading, serverStatus, pendingCall, healthPending>>
  /\ UNCHANGED <<backend, ttsText, ttsQuery, wire>>

FrontNext ==
  \/ \E p \in PromptTexts : SetPrompt(p)
  \/ \E sm \in SystemTexts : SetSystemMessage(sm)
  \/ HealthTimer
  \/ \E hasStatus \in BOOLEAN : HealthAnswer(hasStatus)
  \/ \E code \in {"ECONNREFUSED", "ECONNABORTED"} : HealthFail(code)
  \/ HandleSubmit
  \/ \E data \in ChatAnswers : ChatAnswered(data)
  \/ \E e \in ChatErrors : ChatFailed(e)
  \/ HandleAudioPlay
  \/ PlayStarted
  \/ PlayRejected
  \/ HandleAudioEnded
  \/ HandleAudioError
  \/ ClearResponse

(* ---------------- the TTS request of generateAudio ---------------- *)
\* the length limit of text.substring(0, 200)
TtsLimit == 200

\* String.prototype.substring(start, end) for 0 <= start <= end: the
\* UTF-16 units start .. end-1, end clamped to the length
Substring(s, start, end) ==
  SubSeq(s, start + 1, IF end < Len(s) THEN end ELSE Len(s))

\* UTF-16 units of the texts: "a" stands for the characters that
\* encodeURIComponent leaves alone, " " for those it escapes, "D83D" and "DE00"
\* for the high and the low unit of the surrogate pair of U+1F600, whose four
\* UTF-8 bytes F0 9F 98 80 are written two per unit
EncodeUnit(c) ==
  CASE c = " " -> <<"%", "2", "0">>
    [] c = "D83D" -> <<"%", "F", "0", "%", "9", "F">>
    [] c = "DE00" -> <<"%", "9", "8", "%", "8", "0">>
    [] OTHER -> <<c>>

\* every surrogate unit is part of a pair
WellFormed(s) ==
  \A i \in 1..Len(s) :
    /\ s[i] = "D83D" => (i < Len(s) /\ s[i + 1] = "DE00")
    /\ s[i] = "DE00" => (i > 1 /\ s[i - 1] = "D83D")

\* the escapes of the units lo..hi of s, in order
RECURSIVE EncodeRange(_, _, _)
EncodeRange(s, lo, hi) ==
  IF lo > hi THEN <<>>
  ELSE IF lo = hi THEN EncodeUnit(s[lo])
  ELSE LET mid == (lo + hi) \div 2
       IN EncodeRange(s, lo, mid) \o EncodeRange(s, mid + 1, hi)

\* encodeURIComponent: ok is FALSE when it throws URIError, which it does on
\* a surrogate unit that is not part of a pair
EncodeURIComponent(s) ==
  IF WellFormed(s)
    THEN [ok |-> TRUE, v |-> EncodeRange(s, 1, Len(s))]
    ELSE [ok |-> FALSE, v |-> <<>>]

\* the q parameter without the length limit
TtsQueryUncut(text) ==
  LET e == EncodeURIComponent(text)
  IN [sent |-> e.ok, q |-> e.v]

\* encodeURIComponent(text.substring(0, 200)); when it throws no request is
\* sent and the catch of the primary method runs
TtsQuery(text) ==
  LET e == EncodeURIComponent(Substring(text, 0, TtsLimit))
  IN [sent |-> e.ok, q |-> e.v]

(* ---------------- initial state ---------------- *)
\* the module has been loaded: ASSISTANT_ID = null, audioFiles = new Map();
\* public/audio may or may not exist in the checkout
Init ==
  /\ started = FALSE
  /\ ASSISTANT_ID = Null
  /\ audioFiles = <<>>
  /\ disk = {}
  /\ dirExists \in BOOLEAN
  /\ now = 0
  /\ vapiAssistants = 0
  /\ req = [r \in Requests |-> IdleReq]
  /\ chatRes = NoChatRes
  /\ getRes = NoGet
  /\ apiRes = NoApi
  /\ handedOut = [chat |-> {}, placeholder |-> {}]
  /\ ttsText = <<>>
  /\ ttsQuery = NoTts
  /\ wire = 0
  /\ FrontStart

(* ---------------- server start-up and clock ---------------- *)
\* app.listen(PORT, callback): the callback only logs
Listen ==
  /\ ~started
  /\ started' = TRUE
  /\ getRes' = NoGet
  /\ apiRes' = NoApi
  /\ chatRes' = NoChatRes
  /\ UNCHANGED <<ASSISTANT_ID, audioFiles, disk, dirExists, now, vapiAssistants, req, handedOut>>
  /\ UNCHANGED aside

\* a millisecond passes
Tick ==
  /\ now < MaxClock
  /\ now' = now + 1
  /\ getRes' = NoGet
  /\ apiRes' = NoApi
  /\ chatRes' = NoChatRes
  /\ UNCHANGED <<started, ASSISTANT_ID, audioFiles, disk, dirExists, vapiAssistants, req, handedOut>>
  /\ UNCHANGED aside

(* ---------------- GET /api/health, GET /api/config ---------------- *)
Health ==
  /\ started
  /\ getRes' = [ep |-> "health", assistantId |-> ASSISTANT_ID]
  /\ apiRes' = NoApi
  /\ chatRes' = NoChatRes
  /\ UNCHANGED <<started, ASSISTANT_ID, audioFiles, disk, dirExists, now, vapiAssistants, req, handedOut>>
  /\ UNCHANGED aside

\* the config endpoint without the assistant id
ConfigNoId ==
  /\ started
  /\ getRes' = [ep |-> "config", assistantId |-> Null]
  /\ apiRes' = NoApi
  /\ chatRes' = NoChatRes
  /\ UNCHANGED <<started, ASSISTANT_ID, audioFiles, disk, dirExists, now, vapiAssistants, req, handedOut>>
  /\ UNCHANGED aside

Config ==
  /\ started
  /\ getRes' = [ep |-> "config", assistantId |-> ASSISTANT_ID]
  /\ apiRes' = NoApi
  /\ chatRes' = NoChatRes
  /\ UNCHANGED <<started, ASSISTANT_ID, audioFiles, disk, dirExists, now, vapiAssistants, req, handedOut>>
  /\ UNCHANGED aside

(* ---------------- POST /api/chat ---------------- *)
\* the handler's catch block: answer 200 with the text for the failure
Caught(slot, call, status) ==
  [slot EXCEPT !.pc = "done", !.failed = call, !.failStatus = status,
               !.res = ErrorResponse(status)]

\* axios.post(`${VAPI_BASE_URL}/chat`, {assistantId, input: message.trim()}):
\* message.trim() throws a TypeError when message is not a string
SubmitChat(slot, id) ==
  IF slot.message.t = "string"
    THEN [slot EXCEPT !.pc = "awaitChat",
                      !.sent = [assistantId |-> id, input |-> Trim(slot.message.v)]]
    ELSE Caught(slot, "trim", 0)

\* the handler validating only after getOrCreateAssistant
ChatStartValidatesLate(slot, m, cached) ==
  IF cached = Null
    THEN [slot EXCEPT !.pc = "awaitCreate", !.message = m, !.goca = "pending"]
    ELSE IF ~Truthy(m)
      THEN [slot EXCEPT !.pc = "done", !.message = m, !.res = BadRequest]
      ELSE SubmitChat([slot EXCEPT !.message = m, !.goca = "cached"], cached)

\* getOrCreateAssistant without the `if (ASSISTANT_ID)` early return
ChatStartNoCache(slot, m, cached) ==
  IF ~Truthy(m)
    THEN [slot EXCEPT !.pc = "done", !.message = m, !.res = BadRequest]
    ELSE [slot EXCEPT !.pc = "awaitCreate", !.message = m, !.goca = "pending"]

\* the handler up to its first await: validation, then getOrCreateAssistant
\* up to the creation request, or through to the chat request when the id is
\* cached
ChatStart(slot, m, cached) ==
  IF ~Truthy(m)
    THEN [slot EXCEPT !.pc = "done", !.message = m, !.res = BadRequest]
    ELSE IF cached # Null
      THEN SubmitChat([slot EXCEPT !.message = m, !.goca = "cached"], cached)
      ELSE [slot EXCEPT !.pc = "awaitCreate", !.message = m, !.goca = "pending"]

\* a client posts a chat request; requests are numbered in order of arrival
PostChatStep(r, m) ==
  /\ started
  /\ req[r].pc = "idle"
  /\ \A q \in Requests : q < r => req[q].pc # "idle"
  /\ Commit(r, ChatStart(req[r], m, ASSISTANT_ID))
  /\ getRes' = NoGet
  /\ apiRes' = NoApi
  /\ UNCHANGED <<started, ASSISTANT_ID, audioFiles, disk, dirExists, now, vapiAssistants>>

\* the same with no frontend modelled: the request is an input
PostChat(r, m) ==
  /\ PostChatStep(r, m)
  /\ UNCHANGED aside

\* the handler forwarding systemMessage to the provider with the input
PostChatBodyForwards(r, b) ==
  /\ started
  /\ req[r].pc = "idle"
  /\ \A q \in Requests : q < r => req[q].pc # "idle"
  /\ LET slot == ChatStart(req[r], b.message, ASSISTANT_ID)
     IN Commit(r, IF slot.pc = "awaitChat"
                    THEN [slot EXCEPT !.sent.input = @ \o b.systemMessage.v]
                    ELSE slot)
  /\ getRes' = NoGet
  /\ apiRes' = NoApi
  /\ UNCHANGED <<started, ASSISTANT_ID, audioFiles, disk, dirExists, now, vapiAssistants>>
  /\ UNCHANGED aside

\* const { message, systemMessage } = req.body: the handler reads message;
\* systemMessage is bound and never read, any other field is ignored
PostChatBody(r, b) == PostChat(r, b.message)

\* the id of the n-th assistant created at the provider
AssistantId(n) == <<"asst", n>>

\* getOrCreateAssistant returning the new id without storing it
CreateOkNoStore(r) ==
  /\ req[r].pc = "awaitCreate"
  /\ vapiAssistants' = vapiAssistants + 1
  /\ ASSISTANT_ID' = ASSISTANT_ID
  /\ Commit(r, SubmitChat([req[r] EXCEPT !.goca = "created"],
                          AssistantId(vapiAssistants + 1)))
  /\ getRes' = NoGet
  /\ apiRes' = NoApi
  /\ UNCHANGED <<started, audioFiles, disk, dirExists, now>>
  /\ UNCHANGED aside

\* POST /assistant answers 2xx: ASSISTANT_ID = assistant.data.id, and the
\* handler goes on to the chat request
CreateOk(r) ==
  /\ req[r].pc = "awaitCreate"
  /\ vapiAssistants' = vapiAssistants + 1
  /\ ASSISTANT_ID' = AssistantId(vapiAssistants + 1)
  /\ Commit(r, SubmitChat([req[r] EXCEPT !.goca = "created"], ASSISTANT_ID'))
  /\ getRes' = NoGet
  /\ apiRes' = NoApi
  /\ UNCHANGED <<started, audioFiles, disk, dirExists, now>>
  /\ UNCHANGED aside

\* POST /assistant fails: getOrCreateAssistant rethrows, the handler catches
CreateFail(r, status) ==
  /\ req[r].pc = "awaitCreate"
  /\ Commit(r, Caught([req[r] EXCEPT !.goca = "failed"], "create", status))
  /\ getRes' = NoGet
  /\ apiRes' = NoApi
  /\ UNCHANGED <<started, ASSISTANT_ID, audioFiles, disk, dirExists, now, vapiAssistants>>
  /\ UNCHANGED aside

\* a failed chat call being sent again
ChatFailRetries(r, status) ==
  /\ req[r].pc = "awaitChat"
  /\ req[r].failed = "none"
  /\ Commit(r, [req[r] EXCEPT !.failed = "chat", !.failStatus = status])
  /\ getRes' = NoGet
  /\ apiRes' = NoApi
  /\ UNCHANGED <<started, ASSISTANT_ID, audioFiles, disk, dirExists, now, vapiAssistants>>
  /\ UNCHANGED aside

\* POST /chat fails
ChatFail(r, status) ==
  /\ req[r].pc = "awaitChat"
  /\ Commit(r, Caught(req[r], "chat", status))
  /\ getRes' = NoGet
  /\ apiRes' = NoApi
  /\ UNCHANGED <<started, ASSISTANT_ID, audioFiles, disk, dirExists, now, vapiAssistants>>
  /\ UNCHANGED aside

\* POST /chat answers 2xx with body d: generateAudio runs up to the TTS
\* request.  mkdirOk is the outcome of fs.mkdirSync when the directory is
\* missing; when it throws, the outer catch runs the final fallback, whose
\* write has no directory to write to.
ChatOk(r, d, mkdirOk) ==
  /\ req[r].pc = "awaitChat"
  /\ (dirExists => mkdirOk)
  /\ IF dirExists \/ mkdirOk
       THEN /\ dirExists' = TRUE
            /\ disk' = disk
            /\ Commit(r, [req[r] EXCEPT !.pc = "awaitTts", !.vapi = d,
                                         !.sent = IdleReq.sent,
                                         !.tts = TtsQuery(AssistantMessage(d)),
                                         !.audioName = FileName("response_", now)])
       ELSE LET a == FinalFallback(now, disk, {"setup"},
                                   CHOOSE w \in WriteOutcomes(FALSE) : TRUE)
            IN /\ dirExists' = dirExists
               /\ disk' = a.disk
               /\ Commit(r, [req[r] EXCEPT !.pc = "done", !.vapi = d,
                                 !.sent = IdleReq.sent,
                                 !.audioName = FileName("response_", now),
                                 !.tier = a.tier, !.failedTiers = a.failedTiers,
                                 !.res = ChatResponse(d, a.name)])
  /\ getRes' = NoGet
  /\ apiRes' = NoApi
  /\ UNCHANGED <<started, ASSISTANT_ID, audioFiles, now, vapiAssistants>>
  /\ UNCHANGED aside

\* the TTS request answers or fails; the rest of generateAudio runs and ends
\* as a, and the handler answers
TtsDone(r, a) ==
  /\ req[r].pc = "awaitTts"
  /\ a \in AudioResults(req[r].audioName, now, disk, dirExists)
  /\    /\ disk' = a.disk
        /\ Commit(r, [req[r] EXCEPT !.pc = "done", !.tier = a.tier,
                                     !.failedTiers = a.failedTiers,
                                     !.res = ChatResponse(req[r].vapi, a.name)])
  /\ getRes' = NoGet
  /\ apiRes' = NoApi
  /\ UNCHANGED <<started, ASSISTANT_ID, audioFiles, dirExists, now, vapiAssistants>>
  /\ UNCHANGED aside

(* ---------------- placeholder endpoints ---------------- *)
\* audioFiles.set(name, text)
MapSet(m, name, text) ==
  [n \in DOMAIN m \cup {name} |-> IF n = name THEN text ELSE m[n]]

\* the names a client asks for: those the program can have generated
AudioNames ==
  { <<prefix, t>> :
      prefix \in {"response_", "response_text_", "fallback_", "audio_"},
      t \in 0..MaxClock }

\* POST /api/audio/generate: 400 without text, else the text is stored under
\* audio_<now>.mp3 and the name is returned
AudioGenerate(text) ==
  /\ started
  /\ IF Len(text) = 0
       THEN /\ audioFiles' = audioFiles
            /\ handedOut' = handedOut
            /\ apiRes' = [NoApi EXCEPT !.ep = "generate", !.status = 400,
                                       !.kind = "error", !.error = TextRequired]
       ELSE /\ audioFiles' = MapSet(audioFiles, FileName("audio_", now), text)
            /\ handedOut' =
                 [handedOut EXCEPT !.placeholder = @ \cup {FileName("audio_", now)}]
            /\ apiRes' = [NoApi EXCEPT !.ep = "generate", !.status = 200,
                                       !.kind = "name",
                                       !.name = FileName("audio_", now)]
  /\ getRes' = NoGet
  /\ chatRes' = NoChatRes
  /\ UNCHANGED <<started, ASSISTANT_ID, disk, dirExists, now, vapiAssistants, req>>
  /\ UNCHANGED aside

AudioNotFound == <<"Audio file not found">>

\* the lookup without the sendFile branch
AudioLookupMapOnly(m, files, name) ==
  IF name \in DOMAIN m
    THEN [NoApi EXCEPT !.ep = "audio", !.status = 200, !.name = name,
                       !.kind = "placeholder", !.text = m[name]]
    ELSE [NoApi EXCEPT !.ep = "audio", !.status = 404, !.name = name,
                       !.kind = "error", !.error = AudioNotFound]

\* the answer of GET /api/audio/:filename: the placeholder JSON when the name
\* is a key of the map, else the file when sendFile finds it, else 404
AudioLookup(m, files, name) ==
  IF name \in DOMAIN m
    THEN [NoApi EXCEPT !.ep = "audio", !.status = 200, !.name = name,
                       !.kind = "placeholder", !.text = m[name]]
    ELSE IF name \in files
      THEN [NoApi EXCEPT !.ep = "audio", !.status = 200, !.name = name,
                         !.kind = "file"]
      ELSE [NoApi EXCEPT !.ep = "audio", !.status = 404, !.name = name,
                         !.kind = "error", !.error = AudioNotFound]

\* GET /api/audio/:filename
AudioGet(name) ==
  /\ started
  /\ apiRes' = AudioLookup(audioFiles, disk, name)
  /\ getRes' = NoGet
  /\ chatRes' = NoChatRes
  /\ UNCHANGED <<started, ASSISTANT_ID, audioFiles, disk, dirExists, now, vapiAssistants, req, handedOut>>
  /\ UNCHANGED aside

\* a cleanup that also empties public/audio
CleanupRemovesFiles ==
  /\ started
  /\ audioFiles' = <<>>
  /\ disk' = {}
  /\ apiRes' = [NoApi EXCEPT !.ep = "cleanup", !.status = 200, !.kind = "message"]
  /\ getRes' = NoGet
  /\ chatRes' = NoChatRes
  /\ UNCHANGED <<started, ASSISTANT_ID, dirExists, now, vapiAssistants, req, handedOut>>
  /\ UNCHANGED aside

\* DELETE /api/cleanup: audioFiles.clear()
Cleanup ==
  /\ started
  /\ audioFiles' = <<>>
  /\ apiRes' = [NoApi EXCEPT !.ep = "cleanup", !.status = 200, !.kind = "message"]
  /\ getRes' = NoGet
  /\ chatRes' = NoChatRes
  /\ UNCHANGED <<started, ASSISTANT_ID, disk, dirExists, now, vapiAssistants, req, handedOut>>
  /\ UNCHANGED aside

(* ---------------- specification ---------------- *)
Next ==
  \/ Listen
  \/ Tick
  \/ Health
  \/ Config
  \/ \E r \in Requests, b \in Bodies : PostChatBody(r, b)
  \/ \E r \in Requests : CreateOk(r)
  \/ \E r \in Requests, s \in FailStatuses : CreateFail(r, s)
  \/ \E r \in Requests, s \in FailStatuses : ChatFail(r, s)
  \/ \E r \in Requests, d \in VapiData, mk \in BOOLEAN : ChatOk(r, d, mk)
  \/ \E r \in Requests :
       \E a \in AudioResults(req[r].audioName, now, disk, dirExists) : TtsDone(r, a)

Spec == Init /\ [][Next]_vars

\* The whole HTTP surface, with the chat requests of a client that waits for
\* each answer before it posts again.
PostChatSeq(r, b) ==
  /\ \A q \in Requests : req[q].pc \in {"idle", "done"}
  /\ PostChatBody(r, b)

ApiNext ==
  \/ Listen
  \/ Tick
  \/ Health
  \/ Config
  \/ \E r \in Requests, b \in Bodies : PostChatSeq(r, b)
  \/ \E r \in Requests : CreateOk(r)
  \/ \E r \in Requests, s \in FailStatuses : CreateFail(r, s)
  \/ \E r \in Requests, s \in FailStatuses : ChatFail(r, s)
  \/ \E r \in Requests, d \in VapiData, mk \in BOOLEAN : ChatOk(r, d, mk)
  \/ \E r \in Requests :
       \E a \in AudioResults(req[r].audioName, now, disk, dirExists) : TtsDone(r, a)
  \/ \E t \in PlaceholderTexts : AudioGenerate(t)
  \/ \E n \in AudioNames : AudioGet(n)
  \/ Cleanup

ApiSpec == Init /\ [][ApiNext]_vars

\* The same system with the one step the process takes of its own accord:
\* the listen callback runs once the port is bound.  Requests and the answers
\* of the provider are up to the environment.
StartupSpec == Spec /\ WF_vars(Listen)

\* The same system with the steps that timeouts force: of the three outbound
\* calls of a chat request only the TTS request has one (timeout: 15000), so
\* only it ends, by answer or by failure, whatever the remote side does.
TimeoutSpec ==
  /\ Spec
  /\ WF_vars(Listen)
  /\ \A r \in Requests :
       WF_vars(\E a \in AudioResults(req[r].audioName, now, disk, dirExists) :
                 TtsDone(r, a))

\* The frontend component on its own; the answers of the backend are inputs.
FrontSpec == Init /\ [][FrontNext]_vars

\* The frontend with the steps its timers force: the interval starts the next
\* health check (setInterval, 30 s), and a health check ends, by answer or by
\* failure, within its timeout (5 s).
HealthSpec ==
  /\ FrontSpec
  /\ WF_vars(HealthTimer)
  /\ WF_vars(\/ \E hasStatus \in BOOLEAN : HealthAnswer(hasStatus)
             \/ \E code \in {"ECONNREFUSED", "ECONNABORTED"} : HealthFail(code))

(* ---------------- frontend and backend together ---------------- *)
\* what axios makes of the answer of the backend: a 2xx answer is the value
\* of the await, any other status is thrown with the answer attached
AxiosThrows(res) ==
  [ body |-> res.error, status |-> res.status,
    code |-> IF res.status >= 500 THEN "ERR_BAD_RESPONSE" ELSE "ERR_BAD_REQUEST" ]

\* the ways the chat call throws without an answer: the 30 s timeout of the
\* call and failures to connect
NetworkErrors == { e \in ChatErrors : e.status = 0 }

\* the chat call of handleSubmit arrives at the backend
FrontPost(r) ==
  /\ pendingCall.active
  /\ wire = 0
  /\ PostChatStep(r, JsString(pendingCall.message))
  /\ wire' = r
  /\ UNCHANGED <<ttsText, ttsQuery, front>>

\* the answer of the backend arrives at the frontend
FrontAnswered ==
  /\ wire # 0
  /\ chatRes.r = wire
  /\ IF chatRes.q.res.status = 200
       THEN ChatAnsweredStep(chatRes.q.res)
       ELSE ChatFailedStep(AxiosThrows(chatRes.q.res))
  /\ wire' = 0
  /\ UNCHANGED <<backend, ttsText, ttsQuery>>

\* the chat call ends without an answer; the request, if the backend has
\* it, runs on and its answer is dropped
FrontAborted(e) ==
  /\ ChatFailedStep(e)
  /\ wire' = 0
  /\ UNCHANGED <<backend, ttsText, ttsQuery>>

\* The frontend served by the backend: the chat answers the frontend gets
\* are the ones the handler of the backend sends.
EndToEndNext ==
  \/ Listen
  \/ HealthTimer
  \/ started /\ HealthAnswer(TRUE)
  \/ \E p \in PromptTexts : SetPrompt(p)
  \/ HandleSubmit
  \/ \E r \in Requests : FrontPost(r)
  \/ \E r \in Requests : CreateOk(r)
  \/ \E r \in Requests, s \in FailStatuses : CreateFail(r, s)
  \/ \E r \in Requests, s \in FailStatuses : ChatFail(r, s)
  \/ \E r \in Requests, d \in VapiData, mk \in BOOLEAN : ChatOk(r, d, mk)
  \/ \E r \in Requests :
       \E a \in AudioResults(req[r].audioName, now, disk, dirExists) : TtsDone(r, a)
  \/ FrontAnswered
  \/ \E e \in NetworkErrors : FrontAborted(e)

EndToEndSpec == Init /\ [][EndToEndNext]_vars

(* ---------------- generateAudio on its own ---------------- *)
\* response texts of every length up to MaxTextLen: plain text, text with
\* escaped characters, text of surrogate pairs, and text whose pairs lie
\* across the even positions, so that a cut after an even position splits one
TextUnit(k, i) ==
  CASE k = 1 -> "a"
    [] k = 2 -> IF i % 3 = 0 THEN " " ELSE "a"
    [] k = 3 -> IF i % 2 = 1 THEN "D83D" ELSE "DE00"
    [] OTHER -> IF i = 1 THEN "a" ELSE IF i % 2 = 0 THEN "D83D" ELSE "DE00"

Texts == { [i \in 1..n |-> TextUnit(k, i)] : n \in 0..MaxTextLen, k \in 1..4 }

TtsInit ==
  /\ started = FALSE
  /\ ASSISTANT_ID = Null
  /\ audioFiles = <<>>
  /\ disk = {}
  /\ dirExists \in BOOLEAN
  /\ now = 0
  /\ vapiAssistants = 0
  /\ req = [r \in Requests |-> IdleReq]
  /\ chatRes = NoChatRes
  /\ getRes = NoGet
  /\ apiRes = NoApi
  /\ handedOut = [chat |-> {}, placeholder |-> {}]
  /\ ttsText \in Texts
  /\ ttsQuery = NoTts
  /\ wire = 0
  /\ FrontStart

\* generateAudio(ttsText) builds the URL of its TTS request
TtsRequest ==
  /\ ttsQuery = NoTts
  /\ ttsQuery' = TtsQuery(ttsText)
  /\ UNCHANGED <<backend, ttsText, wire, front>>

TtsNext == TtsRequest

TtsSpec == TtsInit /\ [][TtsNext]_vars

(* ---------------- vocabulary of the properties ---------------- *)
\* a chat request was answered in this state
Answered == chatRes.r # 0

\* the body carries no message, or an empty one
MissingOrEmpty(m) == m = JsUndefined \/ m = JsString(<<>>)

\* the provider chat call of the answered request succeeded
ProviderAnswered == Answered /\ chatRes.q.vapi.id # Null

\* the first output item's content of a provider reply, empty when there is none
FirstContent(d) ==
  IF d.hasOutput /\ Len(d.output) >= 1 THEN d.output[1].content ELSE <<>>

\* a step in which some request issues an outbound call
OutboundIssued ==
  \E q \in Requests :
    /\ req'[q].pc \in {"awaitCreate", "awaitChat", "awaitTts"}
    /\ req'[q].pc # req[q].pc

(* ---------------- C1 ---------------- *)
\* C1: every chat request with a non-empty message is answered 200 with a
\* non-empty response text, also when the provider call failed.
C1_NonEmptyMessageGets200 ==
  (Answered /\ ~MissingOrEmpty(chatRes.q.message)) =>
    /\ chatRes.q.res.status = 200
    /\ Len(chatRes.q.res.response) > 0

\* a chat call that failed with 500 has just been answered
C1_Witness ==
  /\ Answered
  /\ chatRes.q.failed = "chat"
  /\ chatRes.q.failStatus = 500
  /\ chatRes.q.res.status = 200

(* ---------------- C2 ---------------- *)
\* C2: a chat request without a message, or with an empty one, is answered
\* 400 {error: "Message is required"} in a step that issues no outbound call
\* and changes neither the cached id, the provider, the placeholder map nor
\* the disk.
C2_EmptyMessageRejectedFirst ==
  [][(chatRes'.r # 0 /\ MissingOrEmpty(chatRes'.q.message)) =>
       /\ chatRes'.q.res = BadRequest
       /\ req[chatRes'.r].pc = "idle"
       /\ ~OutboundIssued
       /\ UNCHANGED <<ASSISTANT_ID, vapiAssistants, audioFiles, disk, dirExists>>]_vars

\* an empty message has just been rejected while an assistant id is cached
C2_Witness ==
  /\ Answered
  /\ chatRes.q.message = JsString(<<>>)
  /\ chatRes.q.res.status = 400
  /\ ASSISTANT_ID # Null

(* ---------------- C3 ---------------- *)
\* C3: after a successful provider chat call the answer carries the first
\* output item's content (the fixed text when there is none or it is empty),
\* the provider's id, the provider's cost (0 when absent) and the file name
\* returned by generateAudio, non-null when a tier succeeded.
C3_SuccessMapping ==
  ProviderAnswered =>
    LET d == chatRes.q.vapi
        res == chatRes.q.res
    IN /\ res.status = 200
       /\ res.response =
            IF FirstContent(d) # <<>> THEN FirstContent(d) ELSE NoContentText
       /\ res.chatId = d.id
       /\ res.cost = IF d.hasCost THEN d.cost ELSE 0
       /\ chatRes.q.tier \in {"primary", "secondary"} =>
            res.audioFileName = chatRes.q.audioName /\ res.audioFileName # Null
       /\ chatRes.q.tier = "tertiary" =>
            res.audioFileName = FileName("fallback_", now)

\* the documented reply {id: c1, output: [{content: "Hi"}], cost: 2} answered
\* with audio
C3_Witness ==
  /\ ProviderAnswered
  /\ chatRes.q.res.response = <<"H", "i">>
  /\ chatRes.q.res.chatId = <<"c1">>
  /\ chatRes.q.res.cost = 2
  /\ chatRes.q.res.audioFileName # Null

(* ---------------- C4 ---------------- *)
\* C4: when the provider chat call succeeded and every audio tier failed, the
\* answer is still 200 with the provider's text, chatId and cost, and
\* audioFileName is null.
C4_TextWithoutAudio ==
  (ProviderAnswered /\ "tertiary" \in chatRes.q.failedTiers) =>
    /\ chatRes.q.res.status = 200
    /\ Len(chatRes.q.res.response) > 0
    /\ FirstContent(chatRes.q.vapi) # <<>> =>
         chatRes.q.res.response = FirstContent(chatRes.q.vapi)
    /\ chatRes.q.res.audioFileName = Null
    /\ chatRes.q.res.chatId = chatRes.q.vapi.id
    /\ chatRes.q.res.cost = chatRes.q.vapi.cost

\* primary, secondary and tertiary tier all failed for a reply with content
C4_Witness ==
  /\ ProviderAnswered
  /\ chatRes.q.failedTiers = {"primary", "secondary", "tertiary"}
  /\ chatRes.q.res.response = <<"H", "i">>
  /\ chatRes.q.res.audioFileName = Null

(* ---------------- C5 ---------------- *)
\* C5 as stated: of two sequential getOrCreateAssistant calls, the second
\* starting after the first has finished with whatever outcome, at most one
\* issues a creation request: once a call that issued one has finished, a
\* call that starts issues none.
C5_Original ==
  [][\A a, b \in Requests :
       (a # b /\ req[a].goca \in {"created", "failed"} /\ req[b].goca = "none")
         => req'[b].goca # "pending"]_vars

\* C5 amended: when the first of two sequential getOrCreateAssistant calls
\* returned an assistant id, the second issues no creation request and
\* returns the cached id.
C5_SecondCallReusesCache ==
  [][\A a, b \in Requests :
       ( /\ a # b
         /\ req[a].goca \in {"created", "cached"}
         /\ req[b].goca = "none"
         /\ req'[b].goca # "none" )
         => /\ req'[b].goca = "cached"
            /\ vapiAssistants' = vapiAssistants
            /\ req'[b].pc = "awaitChat" => req'[b].sent.assistantId = ASSISTANT_ID]_vars

\* the first request created the assistant and is answered; the second got
\* the cached id and is waiting for the provider's chat answer
C5_Witness ==
  /\ req[1].pc = "done" /\ req[1].goca = "created"
  /\ req[2].pc = "awaitChat" /\ req[2].goca = "cached"
  /\ vapiAssistants = 1

(* ---------------- C6 ---------------- *)
\* C6: at most one assistant is ever created at the provider.
C6_AtMostOneAssistant == vapiAssistants <= 1

C8_AssistantCreatedOnStartup ==
  <>(ASSISTANT_ID # Null \/ \E r \in Requests : req[r].pc # "idle")

(* ---------------- C9 ---------------- *)
\* C9: handling GET /api/health or GET /api/config changes neither the cached
\* id, the placeholder map, the disk nor any request, issues no outbound call,
\* and reports the cached assistant id.
C9_GetsHaveNoSideEffects ==
  [][getRes'.ep # "none" =>
       /\ UNCHANGED <<ASSISTANT_ID, audioFiles, disk, dirExists, vapiAssistants, req>>
       /\ ~OutboundIssued
       /\ getRes'.assistantId = ASSISTANT_ID]_vars

\* a config answer with a cached id, a placeholder in memory and a file on disk
C9_Witness ==
  /\ getRes.ep = "config"
  /\ getRes.assistantId # Null
  /\ audioFiles # <<>>
  /\ disk # {}

(* ---------------- C10 ---------------- *)
\* C10: a file name returned by generateAudio names a file on disk at the
\* moment of return, whichever tier returned it, and generateAudio raises
\* only when the write of the final fallback failed.
C10_ReturnedFileExists ==
  ProviderAnswered =>
    /\ chatRes.q.res.audioFileName # Null => chatRes.q.res.audioFileName \in disk
    /\ chatRes.q.res.audioFileName = Null => "tertiary" \in chatRes.q.failedTiers

\* primary and secondary tier failed, the final fallback wrote its file
C10_Witness ==
  /\ ProviderAnswered
  /\ chatRes.q.failedTiers = {"primary", "secondary"}
  /\ chatRes.q.res.audioFileName = FileName("fallback_", now)
  /\ chatRes.q.res.audioFileName \in disk

(* ---------------- C11 ---------------- *)
\* C11: any two calls of generateAudio return different file names, so no call
\* overwrites the file of another: the name a call returns is not on disk
\* before the step in which the call writes and returns it.
C11_FileNamesUnique ==
  [][(chatRes'.r # 0 /\ chatRes'.q.res.audioFileName # Null)
       => chatRes'.q.res.audioFileName \notin disk]_vars

C17_PromptBodyAccepted ==
  [][\A r \in Requests : \A b \in Bodies :
       (b.message = JsUndefined /\ b.prompt # JsUndefined /\ PostChatBody(r, b))
         => ~(chatRes'.r = r /\ chatRes'.q.res.status >= 400)]_vars

C15_PlaceholderRoundTrip ==
  [][/\ apiRes'.ep # "cleanup" =>
          \A n \in DOMAIN audioFiles :
            n \in DOMAIN audioFiles' /\ audioFiles'[n] = audioFiles[n]
     /\ (apiRes'.ep = "audio" /\ apiRes'.name \in DOMAIN audioFiles) =>
          /\ apiRes'.kind = "placeholder"
          /\ apiRes'.text = audioFiles[apiRes'.name]
     /\ apiRes'.ep = "generate" =>
          /\ disk' = disk
          /\ apiRes'.status = 400 => audioFiles' = audioFiles]_vars

(* ---------------- C16 ---------------- *)
\* C16: a GET /api/audio of a name given out by a chat answer is answered
\* with the file from disk, and a GET /api/audio is answered 404 "Audio file
\* not found" exactly when the name is neither a key of the placeholder map
\* nor a file on disk.
C16_AudioServed ==
  apiRes.ep = "audio" =>
    /\ apiRes.name \in handedOut.chat =>
         apiRes.status = 200 /\ apiRes.kind = "file"
    /\ (apiRes.status = 404 /\ apiRes.error = AudioNotFound)
         <=> (apiRes.name \notin DOMAIN audioFiles /\ apiRes.name \notin disk)

\* the file of a chat answer has just been served while the placeholder map
\* holds entries
C16_Witness ==
  /\ apiRes.ep = "audio"
  /\ apiRes.name \in handedOut.chat
  /\ apiRes.kind = "file"
  /\ DOMAIN audioFiles # {}

(* ---------------- C12 ---------------- *)
\* decodeURIComponent: what the character at position i of a query stands
\* for.  A "%" opens an escape of three characters: %20 is a space, the
\* lead byte %F0 gives the high unit and the third byte %98 the low unit of
\* the pair, the other bytes of the pair give nothing; a character outside an
\* escape stands for itself.
UnescapeAt(q, i) ==
  IF q[i] = "%"
    THEN LET byte == IF i + 2 <= Len(q) THEN <<q[i + 1], q[i + 2]>> ELSE <<>>
         IN CASE byte = <<"2", "0">> -> <<" ">>
              [] byte = <<"F", "0">> -> <<"D83D">>
              [] byte = <<"9", "8">> -> <<"DE00">>
              [] OTHER -> <<>>
    ELSE IF (i > 1 /\ q[i - 1] = "%") \/ (i > 2 /\ q[i - 2] = "%")
      THEN <<>>
      ELSE <<q[i]>>

RECURSIVE UnescapeRange(_, _, _)
UnescapeRange(q, lo, hi) ==
  IF lo > hi THEN <<>>
  ELSE IF lo = hi THEN UnescapeAt(q, lo)
  ELSE LET mid == (lo + hi) \div 2
       IN UnescapeRange(q, lo, mid) \o UnescapeRange(q, mid + 1, hi)

\* the source text of a query
Unescape(q) == UnescapeRange(q, 1, Len(q))

\* C12: the source text of the q parameter of a TTS request is the prefix of
\* the response text of length min(200, length): at most 200 characters, and
\* the whole text when it has at most 200.
C12_QueryIsCappedPrefix ==
  ttsQuery.sent =>
    LET src == Unescape(ttsQuery.q)
        k == IF Len(ttsText) < 200 THEN Len(ttsText) ELSE 200
    IN /\ Len(src) <= 200
       /\ src = SubSeq(ttsText, 1, k)
       /\ Len(ttsText) <= 200 => src = ttsText

\* a request for a text of more than 200 characters, some of them escaped
C12_Witness ==
  /\ ttsQuery.sent
  /\ Len(ttsText) > 200
  /\ Len(Unescape(ttsQuery.q)) = 200
  /\ Len(ttsQuery.q) > 200

(* ---------------- C18 ---------------- *)
\* the prompt is not empty after trimming
NonBlank(p) == \E i \in 1..Len(p) : p[i] # " "

\* a step of handleSubmit, known by its toast
SubmitAttempt == toast' \in {PleaseEnterPrompt, ServerNotConnected, GeneratingToast}

\* C18: a chat request is sent only in a state where serverStatus is
\* 'connected' and the prompt is non-empty after trimming, and a submit
\* attempt in any other state sends nothing and leaves loading, response,
\* error and prompt unchanged.
C18_SubmitGuard ==
  [][/\ (pendingCall'.active /\ ~pendingCall.active) =>
          (serverStatus = "connected" /\ NonBlank(prompt))
     /\ (SubmitAttempt /\ ~(serverStatus = "connected" /\ NonBlank(prompt))) =>
          UNCHANGED <<pendingCall, loading, response, error, prompt>>]_vars

\* a submit attempt with a prompt has just been blocked because the server
\* is disconnected, while a response is shown
C18_Witness ==
  /\ toast = ServerNotConnected
  /\ serverStatus = "disconnected"
  /\ NonBlank(prompt)
  /\ response # NullResponse
  /\ ~pendingCall.active

(* ---------------- C19 ---------------- *)
\* C19: when the chat call completes with an answer that carries text, the
\* prompt is cleared, the response holds the answer's text, audio file
\* reference, conversation id and cost, error is null and loading false; when
\* it fails, the prompt is kept, response is null, error is set and loading
\* false.
C19_CompletionStoresFullResponse ==
  [][/\ (result'.kind = "data" /\ Len(result'.data.response) > 0) =>
          /\ prompt' = <<>>
          /\ error' = Null
          /\ ~loading'
          /\ response' # NullResponse
          /\ response'.textResponse = result'.data.response
          /\ IF result'.data.audioFileName = Null
               THEN response'.audioUrl = Null
               ELSE /\ Len(response'.audioUrl) > Len(result'.data.audioFileName)
                    /\ SubSeq(response'.audioUrl, 3, Len(response'.audioUrl))
                         = result'.data.audioFileName
          /\ "chatId" \in DOMAIN response'
          /\ response'.chatId = result'.data.chatId
          /\ "cost" \in DOMAIN response'
          /\ response'.cost = result'.data.cost
     /\ (result'.kind = "error"
           \/ (result'.kind = "data" /\ Len(result'.data.response) = 0)) =>
          /\ prompt' = prompt
          /\ response' = NullResponse
          /\ error' # Null
          /\ ~loading']_vars

(* ---------------- C20 ---------------- *)
\* C20: every chat request that is waiting for an outbound call is eventually
\* answered, because each of its calls ends by answer, failure or timeout.
C20_EveryChatAnswered ==
  \A r \in Requests :
    (req[r].pc \in {"awaitCreate", "awaitChat", "awaitTts"}) ~> (req[r].pc = "done")

(* ---------------- C21 ---------------- *)
\* C21: a fallback_ file is written only by a call of generateAudio that had
\* sent its TTS request, whose primary tier then failed and whose secondary
\* tier then threw: the step that writes the file belongs to a request that
\* was waiting for the TTS answer, and both tiers are among its failed ones.
C21_TertiaryAfterSecondaryThrew ==
  [][\A r \in Requests :
       ( /\ chatRes'.r = r
         /\ \/ chatRes'.q.tier = "tertiary"
            \/ \E n \in disk' \ disk : n[1] = "fallback_" )
         => /\ req[r].pc = "awaitTts"
            /\ req[r].tts.sent
            /\ {"primary", "secondary"} \subseteq chatRes'.q.failedTiers
            /\ "setup" \notin chatRes'.q.failedTiers]_vars

\* the secondary tier wrote its demo file, threw on the text file, and the
\* final fallback wrote fallback_<now>
C21_Witness ==
  /\ Answered
  /\ chatRes.q.tier = "tertiary"
  /\ chatRes.q.audioName \in disk
  /\ FileName("fallback_", now) \in disk
  /\ FileName("response_text_", now) \notin disk

(* ---------------- C22 ---------------- *)
\* C22: a chat request whose assistant-creation call, provider chat call or
\* own code threw is answered 200 with the fixed text of the failure's
\* status (400 rephrase, 401 authentication, 429 a lot of requests, anything
\* else technical difficulties) and audioFileName null, and no TTS request
\* was made for it, whichever call failed.
C22_FailureMapping ==
  (Answered /\ chatRes.q.failed # "none") =>
    LET st == chatRes.q.failStatus
        res == chatRes.q.res
    IN /\ res.status = 200
       /\ st = 400 => res.response = RephraseText
       /\ st = 401 => res.response = AuthText
       /\ st = 429 => res.response = RateLimitText
       /\ st \notin {400, 401, 429} => res.response = TechnicalText
       /\ res.audioFileName = Null
       /\ ~chatRes.q.tts.sent
       /\ chatRes.q.audioName = Null
       /\ chatRes.q.tier = "none"

\* the assistant-creation call failed with 429 and the request has just been
\* answered with the rate-limit text
C22_Witness ==
  /\ Answered
  /\ chatRes.q.failed = "create"
  /\ chatRes.q.failStatus = 429
  /\ chatRes.q.res.response = RateLimitText
  /\ chatRes.q.res.status = 200

(* ---------------- C23 ---------------- *)
\* the place of a request in the order of its outbound calls
CallRank(pc) ==
  CASE pc = "idle" -> 0
    [] pc = "awaitCreate" -> 1
    [] pc = "awaitChat" -> 2
    [] pc = "awaitTts" -> 3
    [] OTHER -> 4

\* C23: every step of a chat request moves it forward in the order creation
\* call, chat call, TTS call, answer, so that no call is made twice; the chat
\* call carries the id that getOrCreateAssistant returned to this request
\* (the cached one, or the one just created); the TTS call follows a chat call
\* that succeeded; and a step in which a call failed issues no call.
C23_CallsOrderedOnce ==
  [][\A r \in Requests :
       req'[r] # req[r] =>
         /\ CallRank(req'[r].pc) > CallRank(req[r].pc)
         /\ req'[r].pc = "awaitChat" =>
              /\ req'[r].sent.assistantId # Null
              /\ req[r].pc = "idle" => req'[r].sent.assistantId = ASSISTANT_ID
              /\ req[r].pc = "awaitCreate" =>
                   /\ vapiAssistants' = vapiAssistants + 1
                   /\ req'[r].sent.assistantId = <<"asst", vapiAssistants'>>
         /\ req'[r].pc = "awaitTts" =>
              /\ req[r].pc = "awaitChat"
              /\ req'[r].vapi.id # Null
         /\ (chatRes'.r = r /\ chatRes'.q.failed # "none") => ~OutboundIssued]_vars

\* a request that made all three calls: it created the assistant, its chat
\* call succeeded and its TTS request is out
C23_Witness ==
  \E r \in Requests :
    /\ req[r].pc = "awaitTts"
    /\ req[r].goca = "created"
    /\ req[r].tts.sent

(* ---------------- C26 ---------------- *)
\* C26: once the cached assistant id is non-null it never changes, and every
\* provider chat request sent from then on carries it.
C26_AssistantIdStable ==
  [][ASSISTANT_ID # Null =>
       /\ ASSISTANT_ID' = ASSISTANT_ID
       /\ \A r \in Requests :
            (req'[r].pc = "awaitChat" /\ req[r].pc # "awaitChat")
              => req'[r].sent.assistantId = ASSISTANT_ID]_vars

(* ---------------- C27 ---------------- *)
\* C27: the input of every provider chat request is a non-empty string.
C27_InputNonEmpty ==
  \A r \in Requests : req[r].pc = "awaitChat" => Len(req[r].sent.input) > 0

(* ---------------- C24 ---------------- *)
\* the last step handled a health check that did not get the backend's
\* answer, or a chat call that reported a connection failure
ConnectionTrouble ==
  \/ result.kind \in {"healthFailed", "healthNoStatus"}
  \/ /\ result.kind = "error"
     /\ result.err.body = <<>>
     /\ result.err.code \in {"NETWORK_ERROR", "ECONNREFUSED"}

\* C24: a failed health check sets 'disconnected' and a successful one sets
\* 'connected'; serverStatus leaves 'connected' only through a failed check
\* or a chat call that reports a connection failure, and never returns to
\* 'checking'; and if from some point on every health check is answered by
\* the backend and no chat call reports a connection failure, serverStatus
\* becomes 'connected', also from 'disconnected', and stays so.
C24_StatusFollowsHealth ==
  /\ [][/\ result'.kind = "healthFailed" => serverStatus' = "disconnected"
        /\ result'.kind = "healthOk" => serverStatus' = "connected"
        /\ (serverStatus = "connected" /\ serverStatus' # "connected") =>
             (serverStatus' = "disconnected" /\ ConnectionTrouble')
        /\ serverStatus' = "checking" => serverStatus = "checking"]_vars
  /\ (<>[]~ConnectionTrouble) => <>[](serverStatus = "connected")

\* a successful health check has just set 'connected' after the status had
\* been 'disconnected': an error of an earlier failed chat call is still shown
C24_Witness ==
  /\ result.kind = "healthOk"
  /\ serverStatus = "connected"
  /\ error = CannotConnect

(* ---------------- C25 ---------------- *)
\* C25: the play button pressed while audioPlaying is false starts playback
\* and leaves the flag false until playback has started, which sets it to
\* true; pressed while audioPlaying is true it pauses and sets the flag to
\* false; the end-of-playback event and the load-error event set it to
\* false; pressed without a current audio it changes no state of the
\* component; and the flag becomes true in no other way.
C25_PlayToggle ==
  [][/\ (~playPending /\ playPending') =>
          (HasAudio /\ ~audioPlaying /\ ~audioPlaying')
     /\ toast' = PlayingToast => (playPending /\ audioPlaying')
     /\ toast' = AudioPausedToast =>
          (HasAudio /\ audioPlaying /\ ~audioPlaying' /\ ~playPending')
     /\ result'.kind = "ended" => ~audioPlaying'
     /\ toast' = AudioLoadError => ~audioPlaying'
     /\ toast' = NoAudioToast =>
          /\ ~HasAudio
          /\ UNCHANGED <<prompt, systemMessage, response, loading, error,
                         audioPlaying, serverStatus, pendingCall,
                         healthPending, playPending>>
     /\ (~audioPlaying /\ audioPlaying') => toast' = PlayingToast]_vars

\* the audio has just been paused by the button
C25_Witness ==
  /\ toast = AudioPausedToast
  /\ HasAudio
  /\ ~audioPlaying

(* ---------------- C28 ---------------- *)
\* C28: response and error are never both non-null, and while loading is
\* true both are null.
C28_ResponseXorError ==
  /\ ~(response # NullResponse /\ error # Null)
  /\ loading => (response = NullResponse /\ error = Null)

\* a submission made while the previous response was playing: it is loading
\* and has cleared the response
C28_Witness ==
  /\ loading
  /\ audioPlaying
  /\ response = NullResponse
  /\ error = Null

(* ---------------- C29 ---------------- *)
\* C29: audioPlaying is true only while a current response with an audio
\* reference exists.
C29_PlayingHasAudio == audioPlaying => HasAudio

(* ---------------- C30 ---------------- *)
\* the chat call of the frontend has just ended, with an answer or without
SubmissionEnded == result.kind \in {"data", "error"}

\* it ended without an answer: the timeout of the frontend or a failure at
\* the network level
NoAnswer == result.kind = "error" /\ result.err.status = 0

\* C30: when the frontend gets the answer to a chat call whose provider call
\* failed at the backend, it ends with response set to the fallback text of
\* the backend for that failure, error null and the prompt cleared; and a
\* submission ends with error set only when the backend answered 400, the
\* call ended without an answer (network failure or the frontend's timeout),
\* or the answer carried no text.
C30_ProviderFailureIsAResponse ==
  [][/\ ( /\ wire # 0
          /\ chatRes.r = wire
          /\ chatRes.q.failed # "none"
          /\ SubmissionEnded'
          /\ ~NoAnswer' ) =>
          LET st == chatRes.q.failStatus
          IN /\ response' # NullResponse
             /\ st = 400 => response'.textResponse = RephraseText
             /\ st = 401 => response'.textResponse = AuthText
             /\ st = 429 => response'.textResponse = RateLimitText
             /\ st \notin {400, 401, 429} => response'.textResponse = TechnicalText
             /\ error' = Null
             /\ prompt' = <<>>
             /\ ~loading'
     /\ (SubmissionEnded' /\ error' # Null) =>
          \/ /\ result'.kind = "error"
             /\ result'.err.status = 400
             /\ chatRes.r = wire
             /\ chatRes.q.res.status = 400
          \/ NoAnswer'
          \/ /\ result'.kind = "data"
             /\ Len(result'.data.response) = 0]_vars

\* the provider answered the chat call of the backend with 429 and the
\* frontend now shows the rate-limit text as its response
C30_Witness ==
  /\ result.kind = "data"
  /\ chatRes.q.failed = "chat"
  /\ chatRes.q.failStatus = 429
  /\ response # NullResponse
  /\ response.textResponse = RateLimitText
  /\ error = Null
  /\ prompt = <<>>

====
